---- MODULE Spec2Model ----
(***************************************************************************)
(* Model of the batch pipeline sequencer, processAudioBatch                *)
(* (features/audio/batch/processor.ts).                                    *)
(*                                                                         *)
(* The async generator is modelled by its suspension points: the generator *)
(* runs from one suspension (a yield, or the await of sleep) to the next   *)
(* in one step.  The environment is the consumer of the stream, which      *)
(* resumes the generator with next() or with throw(err), the timer that    *)
(* resolves a pending sleep, and the owner of the AbortSignal.             *)
(*                                                                         *)
(* Files are identified by their position 1..n in the list: the ids the    *)
(* application generates are distinct, so the Map keyed by file.id has one *)
(* entry per file, in list order.  fileName is carried along unchanged by  *)
(* the code and is left out.                                               *)
(*                                                                         *)
(* The spectral engine is modelled beside it: fft (lib/audio fft and its   *)
(* copy in the spectrogram worker, which differ only in where the cosine   *)
(* and sine of the angle are evaluated), one loop pass per step, and the   *)
(* message handler of the spectrogram worker (lib/audio/                   *)
(* spectrogram-worker.ts).  Each part has its own specification; the       *)
(* variables of the other parts stay as they start.                        *)
(*                                                                         *)
(* The annotator is modelled last: the file list of the annotator store    *)
(* (stores/audio/annotator-store.ts), the playback hook                    *)
(* (hooks/audio/use-audio-playback.ts), whose end checks run one animation *)
(* frame callback per step, and the effect of the waveform editor that     *)
(* asks the spectrogram worker for a spectrogram.                          *)
(***************************************************************************)
EXTENDS Integers, Sequences, FiniteSets, TLC

\* ---------------------------------------------------------------- bounds
\* files in a batch
MaxFiles == 3
\* exceptions the consumer throws into the generator during one run
MaxThrows == 1
\* steps enabled together in a run that the consumer may throw into
MaxEnabled == 2
\* the arrays passed to fft have up to 2^MaxLogN entries
MaxLogN == 3
\* the signal is up to MaxHops smallest hops longer than the fft size
MaxHops == 4
\* files in the annotator store
MaxStoreFiles == 3
\* the length of the audio element's media, in ticks
MaxTicks == 2
\* calls of playRange
MaxPlays == 2
\* requests posted to the editor's worker and not answered
MaxRequests == 3
\* files the editor is given, one after the other
MaxLoads == 2

\* ------------------------------------------------------------- constants
PROCESSING_STEPS == <<"resample", "convert", "mono", "normalize", "trim">>
DEFAULT_STEP_DELAY_MS == 120

\* the smallest hop of the spectrogram
MinHopSize == 256

\* playRange ends a range 0.05 s before its end: the time of the audio
\* element is counted in ticks of that length
EndTolerance == 1

undefined == "undefined"

StepNames == {PROCESSING_STEPS[i] : i \in 1..Len(PROCESSING_STEPS)}

\* ------------------------------------------------------------ exceptions
\* What a catch clause can receive: the DOMException("Aborted","AbortError")
\* of throwIfAborted/sleep, an Error with or without a message text, and a
\* thrown value that is not an Error.
AbortError == [kind |-> "DOMException", name |-> "AbortError", message |-> "Aborted"]
ErrorBoom == [kind |-> "Error", name |-> "Error", message |-> "boom"]
ErrorEmpty == [kind |-> "Error", name |-> "Error", message |-> ""]
NonError == [kind |-> "string", name |-> undefined, message |-> undefined]
NoErr == [kind |-> undefined, name |-> undefined, message |-> undefined]

Thrown == {AbortError, ErrorBoom, ErrorEmpty, NonError}

\* variant: the name test never matches
isAbortError_never(e) == FALSE

isAbortError(e) == e.kind = "DOMException" /\ e.name = "AbortError"

instanceofError(e) == e.kind \in {"Error", "DOMException"}

\* ------------------------------------------------------------ inputs
\* The options object lists its five entries in some order; each entry has
\* an enabled flag.
OptionOrders ==
  { PROCESSING_STEPS,
    <<"mono", "trim", "resample", "normalize", "convert">> }

optionsOf(ord, on) ==
  [i \in 1..Len(ord) |-> [key |-> ord[i], enabled |-> ord[i] \in on]]

\* every combination of enabled flags, in every listing order
OptionsInputs ==
  { optionsOf(ord, on) : ord \in OptionOrders, on \in SUBSET StepNames }

\* the options as the batch dialog builds them (entries in the order of its
\* initial state), with the last m steps of the pipeline enabled
DialogOptions ==
  { optionsOf(PROCESSING_STEPS,
              {PROCESSING_STEPS[i] :
                 i \in (Len(PROCESSING_STEPS) - m + 1)..Len(PROCESSING_STEPS)}) :
      m \in 0..MaxEnabled }

StepDelays == {0, DEFAULT_STEP_DELAY_MS}

\* ------------------------------------------------------- pure functions
optionEnabled(opts, step) ==
  \E i \in 1..Len(opts) : opts[i].key = step /\ opts[i].enabled

\* variant: the enabled entries in the order the options object lists them
getEnabledSteps_listed(opts) ==
  LET on == SelectSeq(opts, LAMBDA o : o.enabled)
  IN [i \in 1..Len(on) |-> on[i].key]

getEnabledSteps(opts) ==
  SelectSeq(PROCESSING_STEPS, LAMBDA step : optionEnabled(opts, step))

Max(a, b) == IF a >= b THEN a ELSE b

\* variant: the quotient is cut off
MathRound_floor(a, b) == a \div b

\* Math.round of a non-negative quotient a / b: floor(a / b + 1/2)
MathRound(a, b) == (2 * a + b) \div (2 * b)

percent(completed, total) ==
  IF total = 0 THEN 100 ELSE MathRound(completed * 100, total)

RECURSIVE countStatus(_, _, _)
countStatus(fs, s, i) ==
  IF i = 0 THEN 0
  ELSE countStatus(fs, s, i - 1) + (IF fs[i].status = s THEN 1 ELSE 0)

\* variant: the switch has no case for "failed"
buildAggregate_noFailedCase(fs, pct) ==
  [ totalFiles |-> Len(fs),
    queuedFiles |-> countStatus(fs, "queued", Len(fs)),
    runningFiles |-> countStatus(fs, "running", Len(fs)),
    successfulFiles |-> countStatus(fs, "success", Len(fs)),
    failedFiles |-> 0,
    percent |-> pct ]

buildAggregate(fs, pct) ==
  [ totalFiles |-> Len(fs),
    queuedFiles |-> countStatus(fs, "queued", Len(fs)),
    runningFiles |-> countStatus(fs, "running", Len(fs)),
    successfulFiles |-> countStatus(fs, "success", Len(fs)),
    failedFiles |-> countStatus(fs, "failed", Len(fs)),
    percent |-> pct ]

\* An object is its identity and its fields. The state object the Map holds
\* for the i-th file has identity i and is mutated in place by the loop; an
\* object literal makes a new object (identity 0) that the generator keeps
\* no reference to.
stateObject(fs, fileId) == [ref |-> fileId, fields |-> fs[fileId]]

\* variant: the state object itself is handed out
snapshot_sameObject(state) == state

\* { ...state }
snapshot(state) == [ref |-> 0, fields |-> state.fields]

\* variant: the message of an Error is not used
failureMessage_generic(e) ==
  IF e.kind = "DOMException" /\ e.name = "AbortError" THEN "Processing aborted"
  ELSE "Processing failed"

failureMessage(e) ==
  IF isAbortError(e) THEN "Processing aborted"
  ELSE IF instanceofError(e) THEN e.message
  ELSE "Processing failed"

\* ----------------------------------------------------------------- state
VARIABLES
  files,           \* the file list (ids 1..n)
  options,         \* the options object, as its list of entries
  stepDelayMs,     \* config.stepDelayMs
  aborted,         \* signal.aborted
  pc,              \* where the generator is suspended
  enabledSteps, stepsPerFile, totalUnits, completedUnits,
  fileStates,      \* fileId -> FileProcessingState
  fileIdx,         \* position of the for-of loop over files
  stepIdx,         \* position of the for-of loop over enabledSteps
  err,             \* the exception bound by the catch clause
  lastUpdate,      \* the update the consumer received last
  nUpdates,        \* how many updates were emitted
  reported,        \* per file: the step values of its running updates
  cause,           \* per file: the exception that made it fail
  abortedAt,       \* where the generator was when abort() was called
  throws,          \* how many exceptions the consumer threw in
  held             \* the updates the consumer received, as it holds them

\* fft(real, imag) (lib/audio fft, and its copy in the spectrogram worker)
VARIABLES
  real, imag,      \* the two arrays, indexed from 0
  fftPc,           \* where the call of fft is
  brI, brJ, brK,   \* bit reversal: i and j of the for loop, k of the while loop
  bfLen, bfI, bfJ, \* butterflies: len, i and j of the three loops
  wReal, wImag,    \* the twiddle factor
  fftInput         \* the arrays as they were passed in

\* self.onmessage of the spectrogram worker
VARIABLES
  request,         \* e.data: the lengths of channelData, fftSize, targetFrames
  workerPc,        \* where the handler is
  hopSize, numFrames, numBins,
  framesLength,    \* frames.length
  frame,           \* the frame loop's counter
  maxRead,         \* the highest index of channelData read so far
  maxWrite,        \* the highest index of frames written so far
  response         \* the message posted to the caller

batchVars == << files, options, stepDelayMs, aborted, pc, enabledSteps,
                stepsPerFile, totalUnits, completedUnits, fileStates, fileIdx,
                stepIdx, err, lastUpdate, nUpdates, reported, cause, abortedAt,
                throws, held >>

fftVars == << real, imag, fftPc, brI, brJ, brK, bfLen, bfI, bfJ, wReal, wImag,
              fftInput >>

workerVars == << request, workerPc, hopSize, numFrames, numBins, framesLength,
                 frame, maxRead, maxWrite, response >>

\* the annotator store (useAnnotatorStore)
VARIABLES
  storeFiles,        \* state.files, as the list of the files' ids
  currentFileIndex,  \* state.currentFileIndex
  currentTime,       \* state.currentTime, in ticks
  isPlaying,         \* state.isPlaying
  lastStoreOp        \* the last operation on the file list, and what it found

\* useAudioPlayback
VARIABLES
  playTokenRef,      \* playTokenRef.current
  audio,             \* audioRef.current: its paused and currentTime
  frameCallbacks,    \* the checkEnd closures passed to requestAnimationFrame
  lastCheck          \* what the last checkEnd that ran found and did

\* the spectrogram effect of WaveformEditor
VARIABLES
  viewMode,
  loading,           \* the file loadAudio is decoding (0: none)
  audioBufferRef,    \* the file audioBufferRef.current was decoded from (0: null)
  sampleRate,
  spectrogramData,   \* the file spectrogramData was computed from (0: null)
  isGeneratingSpectrogram,
  posted,            \* per file: the requests posted with its channel data
  unanswered         \* the requests the worker has not answered, oldest first

storeVars == << storeFiles, currentFileIndex, currentTime, isPlaying,
                lastStoreOp >>

playVars == << playTokenRef, audio, frameCallbacks, lastCheck >>

editorVars == << viewMode, loading, audioBufferRef, sampleRate, spectrogramData,
                 isGeneratingSpectrogram, posted, unanswered >>

annotator == << storeVars, playVars, editorVars >>

\* the spectral engine and the annotator, which the batch sequencer has no
\* part in
engine == << fftVars, workerVars, annotator >>

vars == << batchVars, fftVars, workerVars, annotator >>

inputs == << files, options, stepDelayMs, enabledSteps, stepsPerFile, totalUnits >>

NoUpdate == [file |-> [fileId |-> 0, status |-> undefined, step |-> undefined,
                       message |-> undefined],
             aggregate |-> [totalFiles |-> 0, queuedFiles |-> 0, runningFiles |-> 0,
                            successfulFiles |-> 0, failedFiles |-> 0, percent |-> 0]]

NotAborted == [pc |-> undefined, file |-> 0, step |-> 0]

YieldPoints == {"y183", "y190", "y198", "y203", "y208", "y219"}

emit(fs, cu, fileId) ==
  [ file |-> snapshot(stateObject(fs, fileId)).fields,
    aggregate |-> buildAggregate(fs, percent(cu, totalUnits)) ]

\* what the consumer holds of an emitted update: the object that is the
\* update's file, the contents of the update when it was emitted, and the
\* value completedUnits had then
holding(fs, cu, fileId) ==
  [ ref |-> snapshot(stateObject(fs, fileId)).ref,
    file |-> emit(fs, cu, fileId).file,
    aggregate |-> emit(fs, cu, fileId).aggregate,
    completedUnits |-> cu ]

\* ---------------------------------------------- numbers of the engine
\* A number is either an integer the arithmetic keeps exact, or some other
\* finite floating-point value that is not computed here (a cosine that is
\* not an integer, and whatever is computed from one).
Known(x) == [known |-> TRUE, v |-> x]

SomeFloat == [known |-> FALSE, v |-> 0]

isZero(a) == a.known /\ a.v = 0

\* a * b: zero times a finite number is zero
fmul(a, b) ==
  IF isZero(a) \/ isZero(b) THEN Known(0)
  ELSE IF a.known /\ b.known THEN Known(a.v * b.v)
  ELSE SomeFloat

\* a + b
fadd(a, b) ==
  IF a.known /\ b.known THEN Known(a.v + b.v)
  ELSE IF isZero(a) THEN b
  ELSE IF isZero(b) THEN a
  ELSE SomeFloat

\* a - b
fsub(a, b) ==
  IF a.known /\ b.known THEN Known(a.v - b.v)
  ELSE IF isZero(b) THEN a
  ELSE SomeFloat

\* Math.cos((-2 * Math.PI) / len): -1 for len = 2
MathCos(length) == IF length = 2 THEN Known(-1) ELSE SomeFloat

\* Math.sin((-2 * Math.PI) / len): -1 for len = 4
MathSin(length) == IF length = 4 THEN Known(-1) ELSE SomeFloat

\* Math.sqrt of a sum of squares
MathSqrt(a) ==
  IF a.known /\ \E r \in 0..a.v : r * r = a.v
  THEN Known(CHOOSE r \in 0..a.v : r * r = a.v)
  ELSE SomeFloat

\* Math.floor(a / b) for integers a and b > 0
MathFloor(a, b) == a \div b

NoResponse == [frames |-> -1, numFrames |-> 0, numBins |-> 0]

\* no call of fft is under way
fftIdle ==
  /\ real = <<>> /\ imag = <<>>
  /\ fftPc = "idle"
  /\ brI = 0 /\ brJ = 0 /\ brK = 0
  /\ bfLen = 0 /\ bfI = 0 /\ bfJ = 0
  /\ wReal = Known(1) /\ wImag = Known(0)
  /\ fftInput = [real |-> <<>>, imag |-> <<>>]

\* the worker has no message
workerIdle ==
  /\ request = [channelLength |-> 0, fftSize |-> 0, targetFrames |-> 0]
  /\ workerPc = "idle"
  /\ hopSize = 0 /\ numFrames = 0 /\ numBins = 0
  /\ framesLength = -1
  /\ frame = 0
  /\ maxRead = -1 /\ maxWrite = -1
  /\ response = NoResponse

\* what lastStoreOp and lastCheck hold before anything ran
NoStoreOp == [name |-> "none", index |-> 0, length |-> 0]

NoCheck == [token |-> 0, latest |-> 0, paused |-> TRUE, outcome |-> "none"]

\* initialState of the store (annotator-store.ts)
storeInitial ==
  /\ storeFiles = <<>>
  /\ currentFileIndex = 0
  /\ currentTime = 0
  /\ isPlaying = FALSE
  /\ lastStoreOp = NoStoreOp

\* the hook as it is mounted, the audio element paused at the start
playbackInitial ==
  /\ playTokenRef = 0
  /\ audio = [paused |-> TRUE, currentTime |-> 0]
  /\ frameCallbacks = <<>>
  /\ lastCheck = NoCheck

\* no editor is mounted
editorIdle ==
  /\ viewMode = "waveform"
  /\ loading = 0
  /\ audioBufferRef = 0
  /\ sampleRate = 0
  /\ spectrogramData = 0
  /\ isGeneratingSpectrogram = FALSE
  /\ posted = <<>>
  /\ unanswered = <<>>

annotatorIdle == storeInitial /\ playbackInitial /\ editorIdle

\* no batch: processAudioBatch([], options with nothing enabled, {})
batchIdle ==
  /\ files = <<>>
  /\ options = optionsOf(PROCESSING_STEPS, {})
  /\ stepDelayMs = DEFAULT_STEP_DELAY_MS
  /\ aborted = FALSE
  /\ pc = "start"
  /\ enabledSteps = <<>>
  /\ stepsPerFile = 1
  /\ totalUnits = 0
  /\ completedUnits = 0
  /\ fileStates = <<>>
  /\ fileIdx = 0
  /\ stepIdx = 0
  /\ err = NoErr
  /\ lastUpdate = NoUpdate
  /\ nUpdates = 0
  /\ reported = <<>>
  /\ cause = <<>>
  /\ abortedAt = NotAborted
  /\ throws = 0
  /\ held = <<>>

\* processAudioBatch(files, options, { signal, stepDelayMs }) up to the loop
setup(opts) ==
  /\ files \in {[i \in 1..n |-> i] : n \in 0..MaxFiles}
  /\ options = opts
  /\ stepDelayMs \in StepDelays
  /\ aborted = FALSE
  /\ pc = "start"
  /\ enabledSteps = getEnabledSteps(options)
  /\ stepsPerFile = Max(Len(enabledSteps), 1)
  /\ totalUnits = Len(files) * stepsPerFile
  /\ completedUnits = 0
  /\ fileStates = [i \in 1..Len(files) |->
                     [fileId |-> files[i], status |-> "queued",
                      step |-> undefined, message |-> undefined]]
  /\ fileIdx = 0
  /\ stepIdx = 0
  /\ err = NoErr
  /\ lastUpdate = NoUpdate
  /\ nUpdates = 0
  /\ reported = [i \in 1..Len(files) |-> <<>>]
  /\ cause = [i \in 1..Len(files) |-> NoErr]
  /\ abortedAt = NotAborted
  /\ throws = 0
  /\ held = <<>>

Init ==
  /\ \E opts \in DialogOptions : setup(opts)
  /\ fftIdle
  /\ workerIdle
  /\ annotatorIdle

InitOptions ==
  /\ \E opts \in OptionsInputs : setup(opts)
  /\ fftIdle
  /\ workerIdle
  /\ annotatorIdle

\* ------------------------------------------------- the generator's moves
\* variant: the update is built before the state is changed
yield_staleEmit(at, i, j, st, cu, e) ==
  LET fs == [fileStates EXCEPT ![i] = st] IN
  /\ pc' = at
  /\ fileIdx' = i
  /\ stepIdx' = j
  /\ fileStates' = fs
  /\ completedUnits' = cu
  /\ err' = e
  /\ lastUpdate' = emit(fileStates, completedUnits, i)
  /\ nUpdates' = nUpdates + 1
  /\ held' = Append(held, holding(fileStates, completedUnits, i))
  /\ reported' = IF st.status = "running"
                 THEN [reported EXCEPT ![i] = Append(@, st.step)]
                 ELSE reported

\* The generator leaves file i's state as st, has completedUnits = cu,
\* yields emit(file.id) and suspends at the yield `at`.
yield(at, i, j, st, cu, e) ==
  LET fs == [fileStates EXCEPT ![i] = st] IN
  /\ pc' = at
  /\ fileIdx' = i
  /\ stepIdx' = j
  /\ fileStates' = fs
  /\ completedUnits' = cu
  /\ err' = e
  /\ lastUpdate' = emit(fs, cu, i)
  /\ nUpdates' = nUpdates + 1
  /\ held' = Append(held, holding(fs, cu, i))
  /\ reported' = IF st.status = "running"
                 THEN [reported EXCEPT ![i] = Append(@, st.step)]
                 ELSE reported

\* variant: a file whose processing was cancelled is put back to queued
catch_requeue(i, j, e) ==
  /\ yield("y219", i, j,
           [fileStates[i] EXCEPT
              !.status = IF e.kind = "DOMException" THEN "queued" ELSE "failed",
              !.step = undefined, !.message = failureMessage(e)],
           completedUnits, e)
  /\ cause' = [cause EXCEPT ![i] = e]

\* variant: the failed file's last counted unit is taken back
catch_rollback(i, j, e) ==
  /\ yield("y219", i, j,
           [fileStates[i] EXCEPT !.status = "failed", !.step = undefined,
                                 !.message = failureMessage(e)],
           Max(completedUnits - 1, 0), e)
  /\ cause' = [cause EXCEPT ![i] = e]

\* variant: the step is not cleared
catch_keepsStep(i, j, e) ==
  /\ yield("y219", i, j,
           [fileStates[i] EXCEPT !.status = "failed",
                                 !.message = failureMessage(e)],
           completedUnits, e)
  /\ cause' = [cause EXCEPT ![i] = e]

\* catch (err) { ... yield emit(file.id) }
catch(i, j, e) ==
  /\ yield("y219", i, j,
           [fileStates[i] EXCEPT !.status = "failed", !.step = undefined,
                                 !.message = failureMessage(e)],
           completedUnits, e)
  /\ cause' = [cause EXCEPT ![i] = e]

\* the for-of loop over files has nothing left, or was left by break
return(i) ==
  /\ pc' = "done"
  /\ fileIdx' = i
  /\ UNCHANGED << stepIdx, fileStates, completedUnits, err, lastUpdate,
                  nUpdates, reported, cause, held >>

\* variant: the cancellation check stands before the try block
beginFile_checkBeforeTry(i) ==
  IF i > Len(files) THEN return(i)
  ELSE IF aborted
  THEN /\ pc' = "thrown"
       /\ fileIdx' = i
       /\ UNCHANGED << stepIdx, fileStates, completedUnits, err, lastUpdate,
                       nUpdates, reported, cause, held >>
  ELSE /\ yield("y183", i, 0,
                [fileStates[i] EXCEPT !.status = "running", !.message = undefined,
                   !.step = IF Len(enabledSteps) >= 1 THEN enabledSteps[1]
                            ELSE undefined],
                completedUnits, NoErr)
       /\ UNCHANGED cause

\* variant: the cancellation check at the top of the loop body is missing
beginFile_noAbortCheck(i) ==
  IF i > Len(files) THEN return(i)
  ELSE /\ yield("y183", i, 0,
                [fileStates[i] EXCEPT !.status = "running", !.message = undefined,
                   !.step = IF Len(enabledSteps) >= 1 THEN enabledSteps[1]
                            ELSE undefined],
                completedUnits, NoErr)
       /\ UNCHANGED cause

\* top of the loop body for the i-th file, up to the first yield
beginFile(i) ==
  IF i > Len(files) THEN return(i)
  ELSE IF aborted THEN catch(i, 0, AbortError)
  ELSE /\ yield("y183", i, 0,
                [fileStates[i] EXCEPT !.status = "running", !.message = undefined,
                   !.step = IF Len(enabledSteps) >= 1 THEN enabledSteps[1]
                            ELSE undefined],
                completedUnits, NoErr)
       /\ UNCHANGED cause

\* top of the loop body for the j-th enabled step, up to its first yield
beginStep(j) ==
  IF aborted THEN catch(fileIdx, j, AbortError)
  ELSE /\ yield("y198", fileIdx, j,
                [fileStates[fileIdx] EXCEPT !.step = enabledSteps[j]],
                completedUnits, NoErr)
       /\ UNCHANGED cause

\* variant: the unit is reported but not counted
unitDone_uncounted ==
  /\ yield("y203", fileIdx, stepIdx, fileStates[fileIdx], completedUnits, NoErr)
  /\ UNCHANGED cause

\* after await sleep(...): the unit is counted and reported
unitDone ==
  /\ yield("y203", fileIdx, stepIdx, fileStates[fileIdx], completedUnits + 1, NoErr)
  /\ UNCHANGED cause

\* --------------------------------------------------------------- actions
\* first next(): the loop starts
Start ==
  /\ pc = "start"
  /\ beginFile(1)
  /\ UNCHANGED << engine, inputs, aborted, abortedAt, throws >>

\* variant: a file without steps is not counted as a unit
AfterRunning_noUnit ==
  /\ pc = "y183"
  /\ IF Len(enabledSteps) = 0
     THEN /\ yield("y190", fileIdx, stepIdx,
                   [fileStates[fileIdx] EXCEPT !.status = "success", !.step = undefined],
                   completedUnits, NoErr)
          /\ UNCHANGED cause
     ELSE beginStep(1)
  /\ UNCHANGED << engine, inputs, aborted, abortedAt, throws >>

\* next() after the running update of a file
AfterRunning ==
  /\ pc = "y183"
  /\ IF Len(enabledSteps) = 0
     THEN /\ yield("y190", fileIdx, stepIdx,
                   [fileStates[fileIdx] EXCEPT !.status = "success", !.step = undefined],
                   completedUnits + 1, NoErr)
          /\ UNCHANGED cause
     ELSE beginStep(1)
  /\ UNCHANGED << engine, inputs, aborted, abortedAt, throws >>

\* next() after the success update of a file without steps: continue
AfterNoSteps ==
  /\ pc = "y190"
  /\ beginFile(fileIdx + 1)
  /\ UNCHANGED << engine, inputs, aborted, abortedAt, throws >>

\* next() after the update that announces a step: await sleep(stepDelayMs, signal)
StepWork ==
  /\ pc = "y198"
  /\ IF stepDelayMs <= 0 THEN unitDone
     ELSE IF aborted THEN catch(fileIdx, stepIdx, AbortError)
     ELSE /\ pc' = "sleep"
          /\ UNCHANGED << fileIdx, stepIdx, fileStates, completedUnits, err,
                          lastUpdate, nUpdates, reported, cause, held >>
  /\ UNCHANGED << engine, inputs, aborted, abortedAt, throws >>

\* the timer of sleep fires
SleepResolve ==
  /\ pc = "sleep"
  /\ unitDone
  /\ UNCHANGED << engine, inputs, aborted, abortedAt, throws >>

\* variant: the success update still names the last step
AfterUnit_keepsStep ==
  /\ pc = "y203"
  /\ IF stepIdx < Len(enabledSteps)
     THEN beginStep(stepIdx + 1)
     ELSE /\ yield("y208", fileIdx, stepIdx,
                   [fileStates[fileIdx] EXCEPT !.status = "success"],
                   completedUnits, NoErr)
          /\ UNCHANGED cause
  /\ UNCHANGED << engine, inputs, aborted, abortedAt, throws >>

\* variant: after the last step the status is left as it is
AfterUnit_staysRunning ==
  /\ pc = "y203"
  /\ IF stepIdx < Len(enabledSteps)
     THEN beginStep(stepIdx + 1)
     ELSE /\ yield("y208", fileIdx, stepIdx,
                   [fileStates[fileIdx] EXCEPT !.step = undefined],
                   completedUnits, NoErr)
          /\ UNCHANGED cause
  /\ UNCHANGED << engine, inputs, aborted, abortedAt, throws >>

\* next() after the update that reports a completed unit
AfterUnit ==
  /\ pc = "y203"
  /\ IF stepIdx < Len(enabledSteps)
     THEN beginStep(stepIdx + 1)
     ELSE /\ yield("y208", fileIdx, stepIdx,
                   [fileStates[fileIdx] EXCEPT !.status = "success", !.step = undefined],
                   completedUnits, NoErr)
          /\ UNCHANGED cause
  /\ UNCHANGED << engine, inputs, aborted, abortedAt, throws >>

\* variant: the loop steps over the file after the successful one
AfterSuccess_skipsNext ==
  /\ pc = "y208"
  /\ beginFile(fileIdx + 2)
  /\ UNCHANGED << engine, inputs, aborted, abortedAt, throws >>

\* next() after the success update of a file
AfterSuccess ==
  /\ pc = "y208"
  /\ beginFile(fileIdx + 1)
  /\ UNCHANGED << engine, inputs, aborted, abortedAt, throws >>

\* variant: after a failure the batch is retried from its first file
AfterFailure_retryBatch ==
  /\ pc = "y219"
  /\ IF isAbortError(err) \/ aborted
     THEN return(fileIdx)
     ELSE beginFile(1)
  /\ UNCHANGED << engine, inputs, aborted, abortedAt, throws >>

\* variant: the loop is never left
AfterFailure_noBreak ==
  /\ pc = "y219"
  /\ beginFile(fileIdx + 1)
  /\ UNCHANGED << engine, inputs, aborted, abortedAt, throws >>

\* variant: the loop is left after every failure
AfterFailure_alwaysBreak ==
  /\ pc = "y219"
  /\ return(fileIdx)
  /\ UNCHANGED << engine, inputs, aborted, abortedAt, throws >>

\* next() after the failure update: break or go on with the next file
AfterFailure ==
  /\ pc = "y219"
  /\ IF isAbortError(err) \/ aborted
     THEN return(fileIdx)
     ELSE beginFile(fileIdx + 1)
  /\ UNCHANGED << engine, inputs, aborted, abortedAt, throws >>

\* variant: sleep has no abort listener
Abort_noListener ==
  /\ ~aborted
  /\ pc \notin {"done", "thrown"}
  /\ aborted' = TRUE
  /\ abortedAt' = [pc |-> pc, file |-> fileIdx, step |-> stepIdx]
  /\ UNCHANGED << pc, fileIdx, stepIdx, fileStates, completedUnits, err,
                  lastUpdate, nUpdates, reported, cause, held >>
  /\ UNCHANGED << engine, inputs, throws >>

\* controller.abort(): a pending sleep is rejected by its abort listener
Abort ==
  /\ ~aborted
  /\ pc \notin {"done", "thrown"}
  /\ aborted' = TRUE
  /\ abortedAt' = [pc |-> pc, file |-> fileIdx, step |-> stepIdx]
  /\ IF pc = "sleep"
     THEN catch(fileIdx, stepIdx, AbortError)
     ELSE UNCHANGED << pc, fileIdx, stepIdx, fileStates, completedUnits, err,
                       lastUpdate, nUpdates, reported, cause, held >>
  /\ UNCHANGED << engine, inputs, throws >>

\* the consumer resumes a yield inside the try block with throw(e)
ConsumerThrow ==
  /\ pc \in YieldPoints \ {"y219"}
  /\ throws < MaxThrows
  /\ \E e \in Thrown : catch(fileIdx, stepIdx, e)
  /\ throws' = throws + 1
  /\ UNCHANGED << engine, inputs, aborted, abortedAt >>

\* the consumer resumes the yield of the catch clause with throw(e):
\* nothing catches it and the generator ends with the exception
ThrowInCatch ==
  /\ pc = "y219"
  /\ throws < MaxThrows
  /\ throws' = throws + 1
  /\ pc' = "thrown"
  /\ UNCHANGED << engine, inputs, aborted, abortedAt, fileIdx, stepIdx, fileStates,
                  completedUnits, err, lastUpdate, nUpdates, reported, cause,
                  held >>

Next ==
  \/ Start
  \/ AfterRunning
  \/ AfterNoSteps
  \/ StepWork
  \/ SleepResolve
  \/ AfterUnit
  \/ AfterSuccess
  \/ AfterFailure
  \/ Abort
  \/ ConsumerThrow
  \/ ThrowInCatch

\* the generator under any consumer: next(), throw(e), the timer, abort()
Spec == Init /\ [][Next]_vars

\* the generator under a consumer that only pulls (for await), for every
\* combination of enabled flags
NextPull ==
  \/ Start
  \/ AfterRunning
  \/ AfterNoSteps
  \/ StepWork
  \/ SleepResolve
  \/ AfterUnit
  \/ AfterSuccess
  \/ AfterFailure
  \/ Abort

SpecOptions == InitOptions /\ [][NextPull]_vars

\* what happens when the consumer pulls the next update and when a pending
\* delay runs out
Pull ==
  \/ Start
  \/ AfterRunning
  \/ AfterNoSteps
  \/ StepWork
  \/ SleepResolve
  \/ AfterUnit
  \/ AfterSuccess
  \/ AfterFailure

\* the pulling consumer keeps pulling and every pending delay elapses
\* (or is aborted)
SpecPull == InitOptions /\ [][NextPull]_vars /\ WF_vars(Pull)

\* ------------------------------------------------------------------- fft
\* real.length
fftLength == Cardinality(DOMAIN real)

\* the arrays a caller passes: real[p] = 1 and every other entry 0, or
\* entries that all differ
impulseAt(size, p) ==
  [ real |-> [x \in 0..(size - 1) |-> IF x = p THEN Known(1) ELSE Known(0)],
    imag |-> [x \in 0..(size - 1) |-> Known(0)] ]

ramp(size) ==
  [ real |-> [x \in 0..(size - 1) |-> Known(x + 1)],
    imag |-> [x \in 0..(size - 1) |-> Known(0 - (x + 1))] ]

FftInputs ==
  UNION { {impulseAt(2^e, p) : p \in 0..(2^e - 1)} \cup {ramp(2^e)} :
            e \in 0..MaxLogN }
    \cup {ramp(0)}

\* a caller has made its arrays and calls fft(real, imag)
fftCalled ==
  /\ fftInput \in FftInputs
  /\ real = fftInput.real /\ imag = fftInput.imag
  /\ fftPc = "call"
  /\ brI = 0 /\ brJ = 0 /\ brK = 0
  /\ bfLen = 0 /\ bfI = 0 /\ bfJ = 0
  /\ wReal = Known(1) /\ wImag = Known(0)

InitFft == batchIdle /\ workerIdle /\ annotatorIdle /\ fftCalled

swap(a, x, y) == [a EXCEPT ![x] = a[y], ![y] = a[x]]

\* variant: the even entry is overwritten instead of added to
butterfly_evenOverwritten(re, im, evenIdx, oddIdx, wr, wi) ==
  LET tReal == fsub(fmul(wr, re[oddIdx]), fmul(wi, im[oddIdx]))
      tImag == fadd(fmul(wr, im[oddIdx]), fmul(wi, re[oddIdx]))
  IN [ real |-> [re EXCEPT ![oddIdx] = fsub(re[evenIdx], tReal),
                           ![evenIdx] = tReal],
       imag |-> [im EXCEPT ![oddIdx] = fsub(im[evenIdx], tImag),
                           ![evenIdx] = tImag] ]

\* the body of the innermost loop on the arrays
butterfly(re, im, evenIdx, oddIdx, wr, wi) ==
  LET tReal == fsub(fmul(wr, re[oddIdx]), fmul(wi, im[oddIdx]))
      tImag == fadd(fmul(wr, im[oddIdx]), fmul(wi, re[oddIdx]))
  IN [ real |-> [re EXCEPT ![oddIdx] = fsub(re[evenIdx], tReal),
                           ![evenIdx] = fadd(re[evenIdx], tReal)],
       imag |-> [im EXCEPT ![oddIdx] = fsub(im[evenIdx], tImag),
                           ![evenIdx] = fadd(im[evenIdx], tImag)] ]

\* const n = real.length; if (n <= 1) return; let j = 0; i = 0
FftCall ==
  /\ fftPc = "call"
  /\ IF fftLength <= 1
     THEN /\ fftPc' = "done"
          /\ UNCHANGED << brI, brJ >>
     ELSE /\ fftPc' = "swap"
          /\ brI' = 0
          /\ brJ' = 0
  /\ UNCHANGED << real, imag, brK, bfLen, bfI, bfJ, wReal, wImag, fftInput >>
  /\ UNCHANGED << batchVars, workerVars, annotator >>

\* variant: only the real parts are swapped
BitReverseSwap_realOnly ==
  /\ fftPc = "swap"
  /\ IF brI < brJ
     THEN /\ real' = swap(real, brI, brJ)
          /\ UNCHANGED imag
     ELSE UNCHANGED << real, imag >>
  /\ brK' = fftLength \div 2
  /\ fftPc' = "carry"
  /\ UNCHANGED << brI, brJ, bfLen, bfI, bfJ, wReal, wImag, fftInput >>
  /\ UNCHANGED << batchVars, workerVars, annotator >>

\* if (i < j) swap; let k = n >> 1
BitReverseSwap ==
  /\ fftPc = "swap"
  /\ IF brI < brJ
     THEN /\ real' = swap(real, brI, brJ)
          /\ imag' = swap(imag, brI, brJ)
     ELSE UNCHANGED << real, imag >>
  /\ brK' = fftLength \div 2
  /\ fftPc' = "carry"
  /\ UNCHANGED << brI, brJ, bfLen, bfI, bfJ, wReal, wImag, fftInput >>
  /\ UNCHANGED << batchVars, workerVars, annotator >>

\* while (k <= j) { j -= k; k >>= 1 }
BitReverseCarry ==
  /\ fftPc = "carry"
  /\ brK <= brJ
  /\ brJ' = brJ - brK
  /\ brK' = brK \div 2
  /\ UNCHANGED << real, imag, fftPc, brI, bfLen, bfI, bfJ, wReal, wImag, fftInput >>
  /\ UNCHANGED << batchVars, workerVars, annotator >>

\* j += k; i++; and after the last i the first butterfly loop starts
BitReverseNext ==
  /\ fftPc = "carry"
  /\ brK > brJ
  /\ brJ' = brJ + brK
  /\ brI' = brI + 1
  /\ IF brI + 1 < fftLength - 1
     THEN /\ fftPc' = "swap"
          /\ UNCHANGED << bfLen, bfI, bfJ, wReal, wImag >>
     ELSE /\ fftPc' = "butterfly"
          /\ bfLen' = 2
          /\ bfI' = 0
          /\ bfJ' = 0
          /\ wReal' = Known(1)
          /\ wImag' = Known(0)
  /\ UNCHANGED << real, imag, brK, fftInput >>
  /\ UNCHANGED << batchVars, workerVars, annotator >>

\* one pass of the innermost loop, and the loop heads that follow it
Butterfly ==
  /\ fftPc = "butterfly"
  /\ LET halfLen == bfLen \div 2
         evenIdx == bfI + bfJ
         oddIdx == evenIdx + halfLen
         out == butterfly(real, imag, evenIdx, oddIdx, wReal, wImag)
         wPrReal == MathCos(bfLen)
         wPrImag == MathSin(bfLen)
     IN /\ real' = out.real
        /\ imag' = out.imag
        /\ IF bfJ + 1 < halfLen
           THEN /\ bfJ' = bfJ + 1
                /\ wReal' = fsub(fmul(wReal, wPrReal), fmul(wImag, wPrImag))
                /\ wImag' = fadd(fmul(wReal, wPrImag), fmul(wImag, wPrReal))
                /\ UNCHANGED << bfLen, bfI, fftPc >>
           ELSE IF bfI + bfLen < fftLength
           THEN /\ bfI' = bfI + bfLen
                /\ bfJ' = 0
                /\ wReal' = Known(1)
                /\ wImag' = Known(0)
                /\ UNCHANGED << bfLen, fftPc >>
           ELSE IF bfLen * 2 <= fftLength
           THEN /\ bfLen' = bfLen * 2
                /\ bfI' = 0
                /\ bfJ' = 0
                /\ wReal' = Known(1)
                /\ wImag' = Known(0)
                /\ UNCHANGED fftPc
           ELSE /\ fftPc' = "done"
                /\ UNCHANGED << bfLen, bfI, bfJ, wReal, wImag >>
  /\ UNCHANGED << brI, brJ, brK, fftInput >>
  /\ UNCHANGED << batchVars, workerVars, annotator >>

NextFft ==
  \/ FftCall
  \/ BitReverseSwap
  \/ BitReverseCarry
  \/ BitReverseNext
  \/ Butterfly

\* one call of fft on arrays of a power-of-two length
SpecFft == InitFft /\ [][NextFft]_vars

\* the call runs on as long as it has a next step
SpecFftRuns == InitFft /\ [][NextFft]_vars /\ WF_vars(NextFft)

\* ------------------------------------------------- spectrogram worker
\* Only the sizes and the indices of the handler are modelled: the samples,
\* the window, the spectrum of a frame and the normalisation are values
\* that decide no size and no index.
\* Math.max(256, Math.floor((channelData.length - fftSize) / targetFrames))
hopSizeOf(channelLength, fftSize, targetFrames) ==
  Max(MinHopSize, MathFloor(channelLength - fftSize, targetFrames))

\* variant: the window is not taken off the signal length
numFramesOf_wholeSignal(channelLength, fftSize, hop) ==
  MathFloor(channelLength, hop)

\* variant: the frame that starts at the last hop is counted too
numFramesOf_inclusive(channelLength, fftSize, hop) ==
  MathFloor(channelLength - fftSize, hop) + 1

\* Math.floor((channelData.length - fftSize) / hopSize)
numFramesOf(channelLength, fftSize, hop) ==
  MathFloor(channelLength - fftSize, hop)

\* fftSize / 2
numBinsOf(fftSize) == fftSize \div 2

\* the requests: fftSize a power of two (1024 in the editor), a signal
\* shorter than, as long as or longer than fftSize, targetFrames positive
WorkerFftSizes == {2^MaxLogN, 1024}

LengthOffsets(fftSize) ==
  {0 - fftSize, -1, 0, 1}
    \cup {h * MinHopSize + d : h \in 1..MaxHops, d \in {-1, 0, 1}}

TargetFrames == {1, 2, 500}

Requests ==
  UNION { { [channelLength |-> f + d, fftSize |-> f, targetFrames |-> t] :
              d \in LengthOffsets(f), t \in TargetFrames } :
            f \in WorkerFftSizes }

\* worker.postMessage({ channelData, sampleRate, fftSize, targetFrames })
workerCalled ==
  /\ request \in Requests
  /\ workerPc = "received"
  /\ hopSize = 0 /\ numFrames = 0 /\ numBins = 0
  /\ framesLength = -1
  /\ frame = 0
  /\ maxRead = -1 /\ maxWrite = -1
  /\ response = NoResponse

InitWorker == batchIdle /\ fftIdle /\ annotatorIdle /\ workerCalled

\* self.onmessage up to the frame loop; new Float32Array(length) throws a
\* RangeError for a negative length, which ends the handler
OnMessage ==
  /\ workerPc = "received"
  /\ LET hop == hopSizeOf(request.channelLength, request.fftSize,
                          request.targetFrames)
         frames == numFramesOf(request.channelLength, request.fftSize, hop)
         bins == numBinsOf(request.fftSize)
     IN /\ hopSize' = hop
        /\ numFrames' = frames
        /\ numBins' = bins
        /\ IF frames * bins < 0
           THEN /\ workerPc' = "RangeError"
                /\ UNCHANGED framesLength
           ELSE /\ workerPc' = "frames"
                /\ framesLength' = frames * bins
  /\ frame' = 0
  /\ UNCHANGED << request, maxRead, maxWrite, response >>
  /\ UNCHANGED << batchVars, fftVars, annotator >>

\* one pass of the frame loop: fftSize samples are read from
\* frame * hopSize on, numBins magnitudes are written from frame * numBins on
Frame ==
  /\ workerPc = "frames"
  /\ frame < numFrames
  /\ maxRead' = Max(maxRead, frame * hopSize + request.fftSize - 1)
  /\ maxWrite' = Max(maxWrite, frame * numBins + numBins - 1)
  /\ frame' = frame + 1
  /\ UNCHANGED << request, workerPc, hopSize, numFrames, numBins, framesLength,
                  response >>
  /\ UNCHANGED << batchVars, fftVars, annotator >>

\* after the loop: normalisation, then self.postMessage(response)
PostResponse ==
  /\ workerPc = "frames"
  /\ ~(frame < numFrames)
  /\ response' = [frames |-> framesLength, numFrames |-> numFrames,
                  numBins |-> numBins]
  /\ workerPc' = "posted"
  /\ UNCHANGED << request, hopSize, numFrames, numBins, framesLength, frame,
                  maxRead, maxWrite >>
  /\ UNCHANGED << batchVars, fftVars, annotator >>

NextWorker ==
  \/ OnMessage
  \/ Frame
  \/ PostResponse

\* one request to the spectrogram worker
SpecSpectrogram == InitWorker /\ [][NextWorker]_vars

\* ---------------------------------------------------- annotator store
\* The files of the store are modelled by their ids.  previousFile and
\* nextFile of the playback hook read files and currentFileIndex through
\* the store's selectors: a change of the store renders the hook again
\* before the next event is handled, so they see the store as it is.
StoreFileIds == 1..MaxStoreFiles

\* the lists addFiles can be given while the store holds n files
StoreFileLists(n) ==
  UNION { [1..k -> StoreFileIds] : k \in 0..(MaxStoreFiles - n) }

\* state.files.findIndex((f) => f.id === fileId): from 0, -1 if there is none
findIndex(fs, fileId) ==
  IF \E i \in 1..Len(fs) : fs[i] = fileId
  THEN (CHOOSE i \in 1..Len(fs) :
          fs[i] = fileId /\ \A k \in 1..(i - 1) : fs[k] # fileId) - 1
  ELSE -1

\* state.files.splice(index, 1), index counted from 0
splice(fs, index) ==
  [i \in 1..(Len(fs) - 1) |-> IF i <= index THEN fs[i] ELSE fs[i + 1]]

\* what an operation on the file list found when it was called
storeOp(name) ==
  [name |-> name, index |-> currentFileIndex, length |-> Len(storeFiles)]

\* selectFile(index)
selectFile(index) ==
  /\ currentFileIndex' = index
  /\ currentTime' = 0
  /\ isPlaying' = FALSE

\* addFiles(files)
addFiles(newFiles) ==
  /\ storeFiles' = storeFiles \o newFiles
  /\ lastStoreOp' = storeOp("addFiles")
  /\ UNCHANGED << currentFileIndex, currentTime, isPlaying >>
  /\ UNCHANGED << batchVars, fftVars, workerVars, playVars, editorVars >>

\* variant: the index is left as it is when a file is removed
removeFile_keepsIndex(fileId) ==
  /\ LET index == findIndex(storeFiles, fileId)
     IN storeFiles' = IF index # -1 THEN splice(storeFiles, index)
                      ELSE storeFiles
  /\ lastStoreOp' = storeOp("removeFile")
  /\ UNCHANGED << currentFileIndex, currentTime, isPlaying >>
  /\ UNCHANGED << batchVars, fftVars, workerVars, playVars, editorVars >>

\* removeFile(fileId)
removeFile(fileId) ==
  /\ LET index == findIndex(storeFiles, fileId)
         left == IF index # -1 THEN splice(storeFiles, index) ELSE storeFiles
     IN /\ storeFiles' = left
        /\ currentFileIndex' =
             IF index # -1 /\ currentFileIndex >= Len(left)
             THEN Max(0, Len(left) - 1)
             ELSE currentFileIndex
  /\ lastStoreOp' = storeOp("removeFile")
  /\ UNCHANGED << currentTime, isPlaying >>
  /\ UNCHANGED << batchVars, fftVars, workerVars, playVars, editorVars >>

\* previousFile() of the playback hook
previousFile ==
  /\ IF currentFileIndex > 0
     THEN selectFile(currentFileIndex - 1)
     ELSE UNCHANGED << currentFileIndex, currentTime, isPlaying >>
  /\ lastStoreOp' = storeOp("previousFile")
  /\ UNCHANGED storeFiles
  /\ UNCHANGED << batchVars, fftVars, workerVars, playVars, editorVars >>

\* nextFile() of the playback hook
nextFile ==
  /\ IF currentFileIndex < Len(storeFiles) - 1
     THEN selectFile(currentFileIndex + 1)
     ELSE UNCHANGED << currentFileIndex, currentTime, isPlaying >>
  /\ lastStoreOp' = storeOp("nextFile")
  /\ UNCHANGED storeFiles
  /\ UNCHANGED << batchVars, fftVars, workerVars, playVars, editorVars >>

NextStore ==
  \/ \E newFiles \in StoreFileLists(Len(storeFiles)) : addFiles(newFiles)
  \/ \E fileId \in StoreFileIds : removeFile(fileId)
  \/ previousFile
  \/ nextFile

InitStore == batchIdle /\ fftIdle /\ workerIdle /\ annotatorIdle

\* the file list of the store under the operations that change it
SpecStore == InitStore /\ [][NextStore]_vars

\* ------------------------------------------------------- playback hook
\* Times are counted in ticks of 0.05 s; the media of the audio element is
\* MaxTicks long.  requestAnimationFrame runs the callbacks in the order
\* they were passed, one per step; a callback passed while the callbacks of
\* a frame run is run in a later frame.
Ticks == 0..MaxTicks

\* a checkEnd closure: the token and the end of its call of playRange
closure(token, end) == [token |-> token, end |-> end]

\* what a checkEnd that runs finds, with what it then does
found(cb, outcome) ==
  [token |-> cb.token, latest |-> playTokenRef, paused |-> audio.paused,
   outcome |-> outcome]

\* checkEnd returns at one of its first two tests
returns(cb) ==
  /\ frameCallbacks' = Tail(frameCallbacks)
  /\ lastCheck' = found(cb, "returned")
  /\ UNCHANGED << audio, currentTime, isPlaying >>

\* checkEnd ends the range: pause, the time set to end, the store told
endsRange(cb) ==
  /\ audio' = [paused |-> TRUE, currentTime |-> cb.end]
  /\ currentTime' = cb.end
  /\ isPlaying' = FALSE
  /\ frameCallbacks' = Tail(frameCallbacks)
  /\ lastCheck' = found(cb, "ended")

\* checkEnd passes itself to requestAnimationFrame again
reschedules(cb) ==
  /\ frameCallbacks' = Append(Tail(frameCallbacks), cb)
  /\ lastCheck' = found(cb, "rescheduled")
  /\ UNCHANGED << audio, currentTime, isPlaying >>

\* variant: the closure does not compare its token
checkEnd_anyToken(cb) ==
  IF audio.paused THEN returns(cb)
  ELSE IF audio.currentTime >= cb.end - EndTolerance THEN endsRange(cb)
  ELSE reschedules(cb)

\* checkEnd, the closure of playRange
checkEnd(cb) ==
  IF playTokenRef # cb.token THEN returns(cb)
  ELSE IF audio.paused THEN returns(cb)
  ELSE IF audio.currentTime >= cb.end - EndTolerance THEN endsRange(cb)
  ELSE reschedules(cb)

\* playRange(start, end)
playRange(start, end) ==
  /\ playTokenRef < MaxPlays
  /\ playTokenRef' = playTokenRef + 1
  /\ audio' = [paused |-> FALSE, currentTime |-> start]
  /\ currentTime' = start
  /\ isPlaying' = TRUE
  /\ frameCallbacks' = Append(frameCallbacks, closure(playTokenRef + 1, end))
  /\ UNCHANGED lastCheck
  /\ UNCHANGED << storeFiles, currentFileIndex, lastStoreOp >>
  /\ UNCHANGED << batchVars, fftVars, workerVars, editorVars >>

\* the browser runs the next animation frame callback
AnimationFrame ==
  /\ frameCallbacks # <<>>
  /\ checkEnd(Head(frameCallbacks))
  /\ UNCHANGED playTokenRef
  /\ UNCHANGED << storeFiles, currentFileIndex, lastStoreOp >>
  /\ UNCHANGED << batchVars, fftVars, workerVars, editorVars >>

\* pause()
pause ==
  /\ audio' = [audio EXCEPT !.paused = TRUE]
  /\ isPlaying' = FALSE
  /\ UNCHANGED << playTokenRef, frameCallbacks, lastCheck, currentTime >>
  /\ UNCHANGED << storeFiles, currentFileIndex, lastStoreOp >>
  /\ UNCHANGED << batchVars, fftVars, workerVars, editorVars >>

\* togglePlayPause()
togglePlayPause ==
  /\ audio' = [audio EXCEPT !.paused = ~audio.paused]
  /\ isPlaying' = audio.paused
  /\ UNCHANGED << playTokenRef, frameCallbacks, lastCheck, currentTime >>
  /\ UNCHANGED << storeFiles, currentFileIndex, lastStoreOp >>
  /\ UNCHANGED << batchVars, fftVars, workerVars, editorVars >>

\* seek(time)
seek(time) ==
  /\ audio' = [audio EXCEPT !.currentTime = time]
  /\ currentTime' = time
  /\ UNCHANGED << playTokenRef, frameCallbacks, lastCheck, isPlaying >>
  /\ UNCHANGED << storeFiles, currentFileIndex, lastStoreOp >>
  /\ UNCHANGED << batchVars, fftVars, workerVars, editorVars >>

\* the audio element plays on by one tick
TimePasses ==
  /\ ~audio.paused
  /\ audio.currentTime < MaxTicks
  /\ audio' = [audio EXCEPT !.currentTime = audio.currentTime + 1]
  /\ UNCHANGED << playTokenRef, frameCallbacks, lastCheck >>
  /\ UNCHANGED storeVars
  /\ UNCHANGED << batchVars, fftVars, workerVars, editorVars >>

\* the audio element reaches the end of its media and pauses
MediaEnded ==
  /\ ~audio.paused
  /\ audio.currentTime = MaxTicks
  /\ audio' = [audio EXCEPT !.paused = TRUE]
  /\ UNCHANGED << playTokenRef, frameCallbacks, lastCheck >>
  /\ UNCHANGED storeVars
  /\ UNCHANGED << batchVars, fftVars, workerVars, editorVars >>

NextPlayback ==
  \/ \E start \in Ticks, end \in Ticks : playRange(start, end)
  \/ AnimationFrame
  \/ pause
  \/ togglePlayPause
  \/ \E time \in Ticks : seek(time)
  \/ TimePasses
  \/ MediaEnded

InitPlayback == batchIdle /\ fftIdle /\ workerIdle /\ annotatorIdle

\* the playback hook with its audio element
SpecPlayback == InitPlayback /\ [][NextPlayback]_vars

\* ---------------------------------------- spectrogram effect of the editor
\* WaveformEditor (its worker answers as the handler above does).  The files
\* the editor is given are numbered 1, 2, ... in the order it is given them.
\* An effect runs after the render that follows a change of one of its
\* dependencies: it is modelled as part of the step that changes them.
SampleRates == {44100, 48000}

\* the effect with dependencies [viewMode, spectrogramData, sampleRate], run
\* with the values of the render it follows; the worker exists from the
\* effect that creates it at the mount
generateSpectrogram(mode, buffer, data) ==
  IF mode # "spectrogram" \/ buffer = 0 \/ data # 0
  THEN UNCHANGED << isGeneratingSpectrogram, posted, unanswered >>
  ELSE /\ Len(unanswered) < MaxRequests
       /\ isGeneratingSpectrogram' = TRUE
       /\ posted' = [posted EXCEPT ![buffer] = @ + 1]
       /\ unanswered' = Append(unanswered, buffer)

\* the editor is mounted with its first file: loadAudio starts
editorMounted ==
  /\ viewMode = "waveform"
  /\ loading = 1
  /\ audioBufferRef = 0
  /\ sampleRate = 0
  /\ spectrogramData = 0
  /\ isGeneratingSpectrogram = FALSE
  /\ posted = [f \in 1..MaxLoads |-> 0]
  /\ unanswered = <<>>

\* setViewMode(mode) with a mode that is not the current one
setViewMode(mode) ==
  /\ mode # viewMode
  /\ viewMode' = mode
  /\ generateSpectrogram(mode, audioBufferRef, spectrogramData)
  /\ UNCHANGED << loading, audioBufferRef, sampleRate, spectrogramData >>
  /\ UNCHANGED << batchVars, fftVars, workerVars, storeVars, playVars >>

\* loadAudio: decodeAudioData resolves, SET_AUDIO_LOADED is dispatched
AudioLoaded(rate) ==
  /\ loading # 0
  /\ audioBufferRef' = loading
  /\ sampleRate' = rate
  /\ loading' = 0
  /\ IF rate # sampleRate
     THEN generateSpectrogram(viewMode, loading, spectrogramData)
     ELSE UNCHANGED << isGeneratingSpectrogram, posted, unanswered >>
  /\ UNCHANGED << viewMode, spectrogramData >>
  /\ UNCHANGED << batchVars, fftVars, workerVars, storeVars, playVars >>

\* the editor is given another file: loadAudio starts again
FileChanged ==
  /\ loading = 0
  /\ audioBufferRef < MaxLoads
  /\ loading' = audioBufferRef + 1
  /\ UNCHANGED << viewMode, audioBufferRef, sampleRate, spectrogramData,
                  isGeneratingSpectrogram, posted, unanswered >>
  /\ UNCHANGED << batchVars, fftVars, workerVars, storeVars, playVars >>

\* the worker answers its oldest request: worker.onmessage
WorkerAnswers ==
  /\ unanswered # <<>>
  /\ spectrogramData' = Head(unanswered)
  /\ isGeneratingSpectrogram' = FALSE
  /\ unanswered' = Tail(unanswered)
  /\ UNCHANGED << viewMode, loading, audioBufferRef, sampleRate, posted >>
  /\ UNCHANGED << batchVars, fftVars, workerVars, storeVars, playVars >>

NextEditor ==
  \/ \E mode \in {"waveform", "spectrogram"} : setViewMode(mode)
  \/ \E rate \in SampleRates : AudioLoaded(rate)
  \/ FileChanged
  \/ WorkerAnswers

InitEditor ==
  /\ batchIdle /\ fftIdle /\ workerIdle
  /\ storeInitial /\ playbackInitial
  /\ editorMounted

\* one mounted editor
SpecEditor == InitEditor /\ [][NextEditor]_vars

\* ------------------------------------------------------------- properties
NumFiles == Len(files)

FileIds == 1..NumFiles

\* the steps whose entry of the options object has enabled = true
EnabledSet ==
  {s \in StepNames : \E x \in 1..Len(options) : options[x].key = s /\ options[x].enabled}

NumEnabled == Cardinality(EnabledSet)

InStatus(s) == {i \in FileIds : fileStates[i].status = s}

Ordinary == Thrown \ {AbortError}

\* the loop over the files ended, by exhaustion or by break
Ended == pc = "done"

\* the loop was left by break at file fileIdx
BrokeOff == pc = "done" /\ fileIdx <= NumFiles

\* a run without cancellation in which the consumer threw one exception
\* that is not a cancellation
OneOrdinaryFailure ==
  /\ ~aborted
  /\ throws = 1
  /\ \E i \in FileIds : cause[i] \in Ordinary

TypeOK ==
  /\ pc \in {"start", "sleep", "done", "thrown"} \cup YieldPoints
  /\ completedUnits \in 0..totalUnits
  /\ fileIdx \in 0..(NumFiles + 1)
  /\ stepIdx \in 0..Len(enabledSteps)
  /\ throws \in 0..MaxThrows

\* C1: totalUnits = n * max(k, 1) for n files and k enabled steps; when a
\* run ends without cancellation and without failure, completedUnits equals
\* totalUnits, every file is in status success and the last emitted update
\* has aggregate percent 100.
C1_UnitAccounting ==
  /\ totalUnits = NumFiles * (IF NumEnabled >= 1 THEN NumEnabled ELSE 1)
  /\ (Ended /\ ~aborted /\ throws = 0) =>
       /\ completedUnits = totalUnits
       /\ InStatus("success") = FileIds
       /\ nUpdates > 0 => lastUpdate.aggregate.percent = 100

C1_Witness ==
  /\ Ended /\ ~aborted /\ throws = 0
  /\ NumFiles = 3 /\ NumEnabled = 2
  /\ completedUnits = 6
  /\ lastUpdate.aggregate.percent = 100

\* C2: never are two files in status running: every emitted aggregate has
\* runningFiles <= 1, and a file becomes running only when every file that
\* was started before it is in success or failed.
C2_SequentialExclusivity ==
  /\ [](/\ Cardinality(InStatus("running")) <= 1
        /\ lastUpdate.aggregate.runningFiles <= 1)
  /\ [][\A i \in FileIds :
          (fileStates[i].status # "running" /\ fileStates'[i].status = "running")
            => /\ \A j \in FileIds \ {i} :
                    fileStates[j].status \in {"queued", "success", "failed"}
               /\ \A j \in 1..(i - 1) :
                    fileStates[j].status \in {"success", "failed"}]_vars

C2_Witness ==
  /\ NumFiles = 3
  /\ fileStates[1].status = "success"
  /\ fileStates[2].status = "running"
  /\ fileStates[3].status = "queued"
  /\ lastUpdate.aggregate.runningFiles = 1
  /\ lastUpdate.aggregate.successfulFiles = 1

\* abort() was called during a step of a file: after the update that
\* announces the step and before the step's unit is counted
AbortedDuringStep == abortedAt.pc \in {"y198", "sleep"}

\* the stream ended at file i by cancellation
StoppedAt(i) ==
  /\ \A j \in 1..(i - 1) : fileStates[j].status = "success"
  /\ fileStates[i].status = "failed"
  /\ fileStates[i].message = "Processing aborted"
  /\ \A j \in (i + 1)..NumFiles :
       fileStates[j].status = "queued" /\ reported[j] = <<>>
  /\ lastUpdate.file = fileStates[i]

\* C3 as stated: cancellation during a step of file i ends the stream with
\* the files before i in success, file i failed with "Processing aborted",
\* the files after i queued and never started, the failure update last.
C3_CancelDuringStep_AsStated ==
  (Ended /\ throws = 0 /\ AbortedDuringStep) => StoppedAt(abortedAt.file)

\* C3 amended: that outcome holds when the step's delay is positive or the
\* step is not the file's last one. With stepDelayMs <= 0 a cancellation
\* during the last step of file i is noticed at the next file's start: file
\* i ends in success and file i + 1, if there is one, is failed with
\* "Processing aborted" without having been running.
C3_CancelDuringStep ==
  (Ended /\ throws = 0 /\ AbortedDuringStep) =>
     IF stepDelayMs > 0 \/ abortedAt.step < Len(enabledSteps)
     THEN StoppedAt(abortedAt.file)
     ELSE /\ fileStates[abortedAt.file].status = "success"
          /\ abortedAt.file < NumFiles =>
               /\ StoppedAt(abortedAt.file + 1)
               /\ reported[abortedAt.file + 1] = <<>>

C3_Witness ==
  /\ Ended /\ throws = 0
  /\ abortedAt = [pc |-> "sleep", file |-> 2, step |-> 1]
  /\ NumFiles = 3
  /\ fileStates[1].status = "success"
  /\ fileStates[2].status = "failed"
  /\ fileStates[2].message = "Processing aborted"
  /\ fileStates[3].status = "queued"
  /\ lastUpdate.file.fileId = 2

\* C4: a failure that is not a cancellation marks only the failing file
\* failed: the exception does not leave the generator, the loop is not left
\* at that file, and every other file reaches success.
C4_FailureIsolated ==
  OneOrdinaryFailure =>
    /\ pc # "thrown"
    /\ Ended =>
         /\ fileIdx = NumFiles + 1
         /\ \E i \in FileIds :
              /\ cause[i] \in Ordinary
              /\ InStatus("failed") = {i}
              /\ InStatus("success") = FileIds \ {i}

C4_Witness ==
  /\ Ended /\ OneOrdinaryFailure
  /\ NumFiles = 3
  /\ cause[2] = ErrorBoom
  /\ fileStates[1].status = "success"
  /\ fileStates[2].status = "failed"
  /\ fileStates[3].status = "success"

\* C5: in a run where one file fails with an error that is not a
\* cancellation and the other files succeed, the aggregate percent reaches
\* 100 by the end of the run.
C5_PercentReaches100 ==
  (Ended /\ OneOrdinaryFailure) => lastUpdate.aggregate.percent = 100

rank(s) == CHOOSE r \in 1..Len(PROCESSING_STEPS) : PROCESSING_STEPS[r] = s

\* a sequence without its consecutive repetitions
RECURSIVE stepChanges(_)
stepChanges(seq) ==
  IF Len(seq) <= 1 THEN seq
  ELSE LET rest == stepChanges(Tail(seq))
       IN IF seq[1] = rest[1] THEN rest ELSE <<seq[1]>> \o rest

\* C6: the steps a file reports in its running updates are enabled steps,
\* each once, in the order resample, convert, mono, normalize, trim, none
\* skipped; a file that reaches success has reported exactly the enabled
\* steps. The order in which the options lists its entries plays no part.
\* (A property of SpecOptions: every combination of flags, both orders.)
C6_FixedStepOrder ==
  \A i \in FileIds :
    LET d == stepChanges(reported[i]) IN
    IF EnabledSet = {}
    THEN d \in {<<>>, <<undefined>>}
    ELSE /\ \A a \in 1..Len(d) : d[a] \in EnabledSet
         /\ \A a, b \in 1..Len(d) : a < b => rank(d[a]) < rank(d[b])
         /\ \A a \in 1..Len(d) :
              {s \in EnabledSet : rank(s) < rank(d[a])} = {d[b] : b \in 1..(a - 1)}
         /\ fileStates[i].status = "success" =>
              {d[a] : a \in 1..Len(d)} = EnabledSet

C6_Witness ==
  /\ options[1].key = "mono"
  /\ EnabledSet = {"mono", "resample"}
  /\ NumFiles >= 1
  /\ fileStates[1].status = "success"
  /\ stepChanges(reported[1]) = <<"resample", "mono">>

Step(i) == <<fileStates[i].status, fileStates'[i].status>>

\* C7 as stated: the only status changes are queued -> running,
\* running -> success and running -> failed.
C7_StatusStateMachine_AsStated ==
  [][\A i \in FileIds :
       \/ fileStates'[i].status = fileStates[i].status
       \/ Step(i) \in {<<"queued", "running">>, <<"running", "success">>,
                       <<"running", "failed">>}]_vars

\* C7 amended: besides those three changes, a file whose turn starts with
\* the signal aborted goes from queued to failed, and a file in success
\* becomes failed when the consumer throws an exception into the generator
\* at the yield of its success update; failed never changes.
C7_StatusStateMachine ==
  [][\A i \in FileIds :
       \/ fileStates'[i].status = fileStates[i].status
       \/ Step(i) \in {<<"queued", "running">>, <<"running", "success">>,
                       <<"running", "failed">>}
       \/ /\ Step(i) = <<"queued", "failed">>
          /\ aborted
          /\ fileStates'[i].message = "Processing aborted"
       \/ /\ Step(i) = <<"success", "failed">>
          /\ pc \in {"y190", "y208"}
          /\ throws' = throws + 1]_vars

C7_Witness ==
  /\ Ended
  /\ NumFiles = 3 /\ NumEnabled = 0
  /\ completedUnits = 3
  /\ fileStates[1].status = "failed"
  /\ cause[1] = ErrorBoom
  /\ fileStates[3].status = "success"

\* C8: in every emitted update the queued, running, successful and failed
\* counts of the aggregate are the numbers of files in each status; they
\* sum to totalFiles, which is the number of files in the batch.
C8_AggregateCounts ==
  nUpdates > 0 =>
    LET a == lastUpdate.aggregate IN
    /\ a.queuedFiles = Cardinality(InStatus("queued"))
    /\ a.runningFiles = Cardinality(InStatus("running"))
    /\ a.successfulFiles = Cardinality(InStatus("success"))
    /\ a.failedFiles = Cardinality(InStatus("failed"))
    /\ a.queuedFiles + a.runningFiles + a.successfulFiles + a.failedFiles = a.totalFiles
    /\ a.totalFiles = NumFiles

C8_Witness ==
  /\ nUpdates > 0
  /\ lastUpdate.aggregate.failedFiles = 1
  /\ lastUpdate.aggregate.runningFiles = 1
  /\ lastUpdate.aggregate.queuedFiles = 1
  /\ lastUpdate.aggregate.totalFiles = 3

\* what C9 says of the message and of the failure update
C9_MessageAndUpdate ==
  /\ \A i \in FileIds :
       cause[i] \in Ordinary =>
         /\ fileStates[i].status = "failed"
         /\ fileStates[i].message =
              (IF cause[i].kind = "Error" THEN cause[i].message ELSE "Processing failed")
  /\ pc = "y219" =>
       /\ lastUpdate.file = fileStates[fileIdx]
       /\ lastUpdate.file.status = "failed"
       /\ lastUpdate.aggregate.failedFiles = Cardinality(InStatus("failed"))

\* C9 as stated: after a failure that is not a cancellation the file is
\* failed with the exception's message, or "Processing failed", an update
\* shows it and processing goes on; the run stops only when the error is
\* itself a cancellation signal.
C9_FailureHandling_AsStated ==
  /\ C9_MessageAndUpdate
  /\ BrokeOff => cause[fileIdx] = AbortError

\* C9 amended: ... processing goes on with the next file unless the signal
\* is aborted when the consumer asks for the next update; the loop is left
\* only when the error is a cancellation signal or the signal is aborted.
C9_FailureHandling ==
  /\ [](/\ C9_MessageAndUpdate
        /\ BrokeOff => (cause[fileIdx] = AbortError \/ aborted))
  /\ [][(/\ pc = "y219" /\ pc' \notin {"y219", "thrown"}
         /\ cause[fileIdx] \in Ordinary /\ ~aborted)
          => fileIdx' = fileIdx + 1]_vars

C9_Witness ==
  /\ Ended /\ ~aborted
  /\ NumFiles = 3
  /\ cause[2] = NonError
  /\ fileStates[2].message = "Processing failed"
  /\ fileStates[3].status = "success"
  /\ fileIdx = 4

\* a file carries "Processing aborted" exactly when a cancellation signal
\* ended its processing
C10_AbortedMessage ==
  \A i \in FileIds :
    fileStates[i].message = "Processing aborted" <=> cause[i] = AbortError

\* C10 as stated: ... and whenever the run stops before every file was
\* processed, the file at which it stopped carries that message.
C10_CancellationMessage_AsStated ==
  /\ C10_AbortedMessage
  /\ BrokeOff => fileStates[fileIdx].message = "Processing aborted"

\* C10 amended: ... the file at which the loop was left carries that
\* message, unless the loop was left because the signal was aborted while a
\* failure of that file that is not a cancellation was handled: then the
\* file carries that failure's message.
C10_CancellationMessage ==
  /\ C10_AbortedMessage
  /\ BrokeOff =>
       \/ fileStates[fileIdx].message = "Processing aborted"
       \/ /\ aborted
          /\ cause[fileIdx] \in Ordinary
          /\ fileStates[fileIdx].message # "Processing aborted"

C10_Witness ==
  /\ BrokeOff /\ aborted
  /\ NumFiles = 3 /\ fileIdx = 2
  /\ cause[2] = ErrorBoom
  /\ fileStates[1].status = "success"
  /\ fileStates[2].message = "boom"
  /\ fileStates[3].status = "queued"

\* what the consumer reads now through the file object of a held update
seen(h) == IF h.ref = 0 THEN h.file ELSE fileStates[h.ref]

\* the held updates of file i, in the order of emission
updatesOf(i) == SelectSeq(held, LAMBDA h : h.file.fileId = i)

\* C11: an emitted update is never changed by later processing: the file
\* snapshot of every update the consumer holds still reads as it did when
\* the update was emitted, whatever was done to the file's state since.
C11_EmittedUpdatesImmutable ==
  \A k \in 1..Len(held) :
    /\ seen(held[k]).status = held[k].file.status
    /\ seen(held[k]).step = held[k].file.step
    /\ seen(held[k]).message = held[k].file.message
    /\ seen(held[k]) = held[k].file

C11_Witness ==
  /\ Len(held) >= 3
  /\ held[1].file.fileId = 1
  /\ held[1].file.status = "running"
  /\ held[1].file.step = "normalize"
  /\ held[1].aggregate.runningFiles = 1
  /\ fileStates[1].status = "failed"
  /\ fileStates[1].message = "boom"
  /\ seen(held[1]).status = "running"

\* C12: updates are emitted in file-list order: an update is never followed
\* by an update for a file earlier in the list (each update is for the
\* same file as the one before it or for a later file), so the updates of
\* one file are contiguous in the stream.
C12_FileListOrder ==
  \A a \in 1..(Len(held) - 1) :
    held[a].file.fileId <= held[a + 1].file.fileId

C12_Witness ==
  /\ NumFiles = 3
  /\ Len(held) >= 5
  /\ held[1].file.fileId = 1
  /\ held[Len(held)].file.fileId = 3
  /\ \E b \in 1..Len(held) : held[b].file.fileId = 2

C14_FiniteStream ==
  /\ <>(pc = "done")
  /\ [](nUpdates <= NumFiles * (2 * NumEnabled + 2))
  /\ [](Ended => \/ InStatus("success") \cup InStatus("failed") = FileIds
                 \/ aborted)

C14_Witness ==
  /\ Ended /\ ~aborted
  /\ NumFiles = 3 /\ NumEnabled = 2
  /\ nUpdates = NumFiles * (2 * NumEnabled + 2)
  /\ InStatus("success") = FileIds

\* Math.sqrt(real[b] * real[b] + imag[b] * imag[b])
magnitude(b) == MathSqrt(fadd(fmul(real[b], real[b]), fmul(imag[b], imag[b])))

\* C15: for every power-of-two N, fft of the impulse (real[0] = 1, all
\* other entries of real and imag 0) leaves a flat spectrum: each of the N
\* bins has magnitude 1.
C15_ImpulseFlatSpectrum ==
  (fftPc = "done" /\ fftInput = impulseAt(fftLength, 0)) =>
     \A b \in 0..(fftLength - 1) : magnitude(b) = Known(1)

C15_Witness ==
  /\ fftPc = "done"
  /\ fftLength = 8
  /\ fftInput = impulseAt(8, 0)
  /\ \A b \in 0..7 : real[b] = Known(1) /\ isZero(imag[b])

\* C16: hopSize is the larger of 256 and floor((L - F) / T), numFrames is
\* floor((L - F) / hopSize) and numBins is F / 2 (the floors stated by
\* their bounds); for L >= F the handler returns them with a frame buffer
\* of numFrames * numBins values, all of them written.
C16_DerivedParameters ==
  LET d == request.channelLength - request.fftSize
      t == request.targetFrames
  IN /\ workerPc \notin {"idle", "received"} =>
          /\ hopSize >= 256
          /\ d < (hopSize + 1) * t
          /\ hopSize > 256 => hopSize * t <= d
          /\ numFrames * hopSize <= d
          /\ d < (numFrames + 1) * hopSize
          /\ 2 * numBins = request.fftSize
     /\ (d >= 0 /\ workerPc # "received") => workerPc \in {"frames", "posted"}
     /\ workerPc = "posted" =>
          /\ response.numFrames = numFrames
          /\ response.numBins = numBins
          /\ response.frames = numFrames * numBins
          /\ frame = numFrames
          /\ maxWrite = numFrames * numBins - 1

C16_Witness ==
  /\ workerPc = "posted"
  /\ request = [channelLength |-> 2049, fftSize |-> 1024, targetFrames |-> 2]
  /\ hopSize = 512
  /\ response = [frames |-> 1024, numFrames |-> 2, numBins |-> 512]

\* C17: a signal shorter than fftSize is answered with a result of 0
\* frames and no frame data, not with an exception.
C17_ShortSignalEmptyResult ==
  (request.channelLength < request.fftSize /\ workerPc \notin {"idle", "received"}) =>
     /\ workerPc # "RangeError"
     /\ workerPc = "posted" => (response.numFrames = 0 /\ response.frames = 0)

\* the index whose binary digits are those of x in reverse, for a
\* power-of-two size
RECURSIVE bitReversed(_, _)
bitReversed(x, size) ==
  IF size <= 1 THEN 0
  ELSE (x % 2) * (size \div 2) + bitReversed(x \div 2, size \div 2)

\* the bit-reversal stage is over and no butterfly has run
BitReversalDone == fftPc = "butterfly" /\ bfLen = 2 /\ bfI = 0 /\ bfJ = 0

\* C24: for a power-of-two N >= 2 the bit-reversal stage ends (and fft
\* with it), j stays within 0..N-1 and k never runs down to 0, and the
\* entry that was at index x is left at the bit-reversed index of x, in
\* real and in imag alike; the output is then in natural order (shown by
\* bins 0 and N/2, the sum and the alternating sum of the entries); for
\* N <= 1 fft changes nothing.
C24_BitReversal ==
  /\ <>(fftPc = "done")
  /\ [](fftPc \in {"swap", "carry"} =>
          /\ brJ \in 0..(fftLength - 1)
          /\ brI \in 0..(fftLength - 2)
          /\ fftPc = "carry" => brK >= 1)
  /\ [](BitReversalDone =>
          /\ brJ \in 0..(fftLength - 1)
          /\ \A x \in 0..(fftLength - 1) :
               /\ real[bitReversed(x, fftLength)] = fftInput.real[x]
               /\ imag[bitReversed(x, fftLength)] = fftInput.imag[x])
  /\ []((fftPc = "done" /\ fftLength >= 2 /\ fftInput = ramp(fftLength)) =>
          /\ real[0] = Known((fftLength * (fftLength + 1)) \div 2)
          /\ imag[0] = Known(0 - (fftLength * (fftLength + 1)) \div 2)
          /\ real[fftLength \div 2] = Known(0 - fftLength \div 2)
          /\ imag[fftLength \div 2] = Known(fftLength \div 2))
  /\ [](fftLength <= 1 => (real = fftInput.real /\ imag = fftInput.imag))

C24_Witness ==
  /\ BitReversalDone
  /\ fftInput = ramp(8)
  /\ real[1] = Known(5) /\ imag[1] = Known(-5)
  /\ real[3] = Known(7) /\ real[6] = Known(4)
  /\ brJ = 7

\* C28: whenever numFrames >= 1, every sample index read
\* (frame * hopSize + i, 0 <= i < fftSize) is below the signal length and
\* every index written (frame * numBins + i, 0 <= i < numBins) is below
\* numFrames * numBins: no sample is read out of range.
C28_IndicesInRange ==
  (workerPc \in {"frames", "posted"} /\ numFrames >= 1) =>
     /\ maxRead < request.channelLength
     /\ maxWrite < numFrames * numBins
     /\ maxWrite < framesLength
     /\ frame <= numFrames
     /\ frame >= 1 =>
          /\ maxRead = (frame - 1) * hopSize + request.fftSize - 1
          /\ maxWrite = frame * numBins - 1

C28_Witness ==
  /\ workerPc = "posted"
  /\ request = [channelLength |-> 2049, fftSize |-> 1024, targetFrames |-> 500]
  /\ hopSize = 256 /\ numFrames = 4
  /\ maxRead = 1791
  /\ maxWrite = 2047

\* C18: when the signal is aborted as a file's turn starts, the file goes
\* straight to failed with "Processing aborted" in one update, without a
\* running update, a step or a counted unit; that update stays the only
\* one of the file.
C18_AbortedAtFileStart ==
  /\ [][(/\ aborted
         /\ pc \in {"start", "y190", "y208", "y219"}
         /\ fileIdx' = fileIdx + 1
         /\ fileIdx' <= NumFiles)
          => /\ pc' = "y219"
             /\ fileStates'[fileIdx'].status = "failed"
             /\ fileStates'[fileIdx'].message = "Processing aborted"
             /\ lastUpdate'.file = fileStates'[fileIdx']
             /\ reported'[fileIdx'] = <<>>
             /\ completedUnits' = completedUnits
             /\ nUpdates' = nUpdates + 1]_vars
  /\ [](\A i \in FileIds :
          (fileStates[i].status = "failed" /\ reported[i] = <<>>) =>
             /\ Len(updatesOf(i)) = 1
             /\ updatesOf(i)[1].file.status = "failed"
             /\ updatesOf(i)[1].file.message = "Processing aborted")

C18_Witness ==
  /\ Ended
  /\ NumFiles = 3 /\ NumEnabled = 2
  /\ abortedAt.pc = "y208" /\ abortedAt.file = 1
  /\ completedUnits = 2
  /\ fileStates[2].status = "failed"
  /\ fileStates[2].message = "Processing aborted"
  /\ reported[2] = <<>>
  /\ Len(updatesOf(2)) = 1
  /\ fileStates[3].status = "queued"

\* C19: a file that went through its k >= 1 enabled steps to success has
\* 2k + 2 updates: running with the first enabled step; for the j-th
\* enabled step one update that names it with completedUnits as before and
\* one with completedUnits one higher; then success with no step.
C19_UpdateSequence ==
  \A i \in FileIds :
    (fileStates[i].status = "success" /\ Len(enabledSteps) >= 1) =>
      LET U == updatesOf(i)
          k == Len(enabledSteps)
      IN /\ Len(U) = 2 * k + 2
         /\ U[1].file.status = "running"
         /\ U[1].file.step = enabledSteps[1]
         /\ \A j \in 1..k :
              /\ U[2 * j].file.status = "running"
              /\ U[2 * j].file.step = enabledSteps[j]
              /\ U[2 * j].completedUnits = U[2 * j - 1].completedUnits
              /\ U[2 * j + 1].file.status = "running"
              /\ U[2 * j + 1].file.step = enabledSteps[j]
              /\ U[2 * j + 1].completedUnits = U[2 * j].completedUnits + 1
         /\ U[2 * k + 2].file.status = "success"
         /\ U[2 * k + 2].file.step = undefined
         /\ U[2 * k + 2].completedUnits = U[2 * k + 1].completedUnits

C19_Witness ==
  /\ NumFiles = 3 /\ NumEnabled = 2
  /\ fileStates[2].status = "success"
  /\ Len(updatesOf(2)) = 6
  /\ updatesOf(2)[1].completedUnits = 2
  /\ updatesOf(2)[3].file.step = "normalize"
  /\ updatesOf(2)[4].file.step = "trim"
  /\ updatesOf(2)[6].completedUnits = 4

\* C20: with no step enabled totalUnits is the number of files, and a file
\* that is processed has two updates: running without a step, then success
\* with completedUnits one higher.
C20_NoStepsOneUnit ==
  NumEnabled = 0 =>
    /\ totalUnits = NumFiles
    /\ \A i \in FileIds :
         fileStates[i].status = "success" =>
           LET U == updatesOf(i) IN
           /\ Len(U) = 2
           /\ U[1].file.status = "running"
           /\ U[1].file.step = undefined
           /\ U[2].file.status = "success"
           /\ U[2].file.step = undefined
           /\ U[2].completedUnits = U[1].completedUnits + 1

C20_Witness ==
  /\ Ended
  /\ NumFiles = 3 /\ NumEnabled = 0
  /\ totalUnits = 3 /\ completedUnits = 3
  /\ Len(held) = 6
  /\ InStatus("success") = FileIds

\* the last update shows the state as it is
ShowsState ==
  /\ lastUpdate'.file = fileStates'[fileIdx']
  /\ \A i \in FileIds :
       fileStates'[i] # fileStates[i] => lastUpdate'.file.fileId = i
  /\ lastUpdate'.aggregate.queuedFiles = Cardinality({i \in FileIds : fileStates'[i].status = "queued"})
  /\ lastUpdate'.aggregate.runningFiles = Cardinality({i \in FileIds : fileStates'[i].status = "running"})
  /\ lastUpdate'.aggregate.successfulFiles = Cardinality({i \in FileIds : fileStates'[i].status = "success"})
  /\ lastUpdate'.aggregate.failedFiles = Cardinality({i \in FileIds : fileStates'[i].status = "failed"})
  /\ completedUnits' = totalUnits <=> lastUpdate'.aggregate.percent = 100
  /\ completedUnits' = 0 <=> lastUpdate'.aggregate.percent = 0

\* every change of a status, a step or completedUnits comes with an update
\* that shows it
C21_ChangesAreShown ==
  (fileStates' # fileStates \/ completedUnits' # completedUnits) =>
     (nUpdates' = nUpdates + 1 /\ ShowsState)

\* C21 as stated: every update differs from the update before it, and
\* every change of a status, a step or completedUnits is followed by an
\* update that shows it.
C21_OneUpdatePerChange_AsStated ==
  [][/\ (nUpdates' = nUpdates + 1 /\ nUpdates >= 1) => lastUpdate' # lastUpdate
     /\ C21_ChangesAreShown]_vars

\* C21 amended: every update differs from the update before it, except
\* the update that announces a file's first step, which repeats the file's
\* running update (an update is emitted there although nothing changed);
\* every change is followed by an update that shows it.
C21_OneUpdatePerChange ==
  [][/\ (nUpdates' = nUpdates + 1 /\ nUpdates >= 1) =>
          \/ lastUpdate' # lastUpdate
          \/ /\ pc = "y183" /\ pc' = "y198"
             /\ stepIdx' = 1
             /\ UNCHANGED << fileStates, completedUnits >>
     /\ C21_ChangesAreShown]_vars

C21_Witness ==
  /\ pc = "y198" /\ stepIdx = 1
  /\ NumFiles = 3 /\ fileIdx = 2
  /\ Len(held) >= 2
  /\ held[Len(held)].file = held[Len(held) - 1].file
  /\ held[Len(held)].aggregate = held[Len(held) - 1].aggregate

\* C22: in every update the percent is the integer nearest to
\* completedUnits / totalUnits * 100, for the value completedUnits has when
\* the update is emitted.
C22_PercentRounded ==
  /\ nUpdates > 0 =>
       /\ totalUnits > 0
       /\ 2 * lastUpdate.aggregate.percent * totalUnits <= 200 * completedUnits + totalUnits
       /\ 2 * lastUpdate.aggregate.percent * totalUnits >= 200 * completedUnits - totalUnits
  /\ \A a \in 1..Len(held) :
       LET p == held[a].aggregate.percent
           c == held[a].completedUnits
       IN /\ 2 * p * totalUnits <= 200 * c + totalUnits
          /\ 2 * p * totalUnits >= 200 * c - totalUnits

C22_Witness ==
  /\ NumFiles = 3 /\ NumEnabled = 1
  /\ completedUnits = 2
  /\ lastUpdate.aggregate.percent = 67
  /\ held[Len(held) - 1].aggregate.percent = 33

\* C23: when the signal is aborted while a step's delay is pending, the
\* wait ends at once: the step's unit is not counted and the next update
\* shows the file failed with "Processing aborted".
C23_AbortDuringDelay ==
  [][(pc = "sleep" /\ ~aborted /\ aborted') =>
        /\ pc' = "y219"
        /\ completedUnits' = completedUnits
        /\ nUpdates' = nUpdates + 1
        /\ lastUpdate'.file.fileId = fileIdx
        /\ lastUpdate'.file.status = "failed"
        /\ lastUpdate'.file.message = "Processing aborted"
        /\ fileStates'[fileIdx] = lastUpdate'.file]_vars

C23_Witness ==
  /\ pc = "y219"
  /\ abortedAt = [pc |-> "sleep", file |-> 2, step |-> 2]
  /\ completedUnits = 3
  /\ lastUpdate.file.fileId = 2
  /\ lastUpdate.file.message = "Processing aborted"
  /\ lastUpdate.aggregate.percent = 50

\* C25: for each loaded file the editor posts at most one spectrogram
\* request to its worker, and no request is posted while an earlier one is
\* unanswered, whatever switches of the view mode happen before the answer.
C25_OneRequestPerFile ==
  /\ \A f \in DOMAIN posted : posted[f] <= 1
  /\ Len(unanswered) <= 1

\* C26: from update to update the percent never goes down; it lies in
\* 0..100, and completedUnits never exceeds totalUnits.
C26_PercentMonotone ==
  /\ [](/\ completedUnits <= totalUnits
        /\ lastUpdate.aggregate.percent \in 0..100)
  /\ [][lastUpdate'.aggregate.percent >= lastUpdate.aggregate.percent]_vars

C26_Witness ==
  /\ Ended /\ aborted /\ throws = 1
  /\ NumFiles = 3
  /\ fileStates[1].status = "failed"
  /\ fileStates[2].status = "success"
  /\ fileStates[3].status = "failed"
  /\ lastUpdate.aggregate.percent = 67

\* C27: in every emitted snapshot a step is set only with status running
\* and a message only with status failed; a running file has its step set
\* when a step is enabled; in success and in failed the step is cleared.
C27_StepAndMessageFields ==
  \A a \in 1..Len(held) :
    LET f == held[a].file IN
    /\ f.step # undefined => f.status = "running"
    /\ f.message # undefined => f.status = "failed"
    /\ (f.status = "running" /\ NumEnabled >= 1) => f.step \in EnabledSet
    /\ f.status \in {"success", "failed"} => f.step = undefined

C27_Witness ==
  /\ Len(held) >= 4
  /\ held[1].file.status = "running" /\ held[1].file.step = "normalize"
  /\ held[3].file.status = "failed" /\ held[3].file.message = ""
  /\ held[Len(held)].file.status = "success"

\* C29: under any sequence of addFiles, removeFile, nextFile and previousFile
\* from the initial state of the store, currentFileIndex is a valid index:
\* 0 when the store has no files, and below the number of files otherwise.
C29_CurrentFileIndexValid ==
  /\ currentFileIndex >= 0
  /\ (Len(storeFiles) = 0 => currentFileIndex = 0)
  /\ (Len(storeFiles) > 0 => currentFileIndex < Len(storeFiles))

\* the last file of a list of several was current and has been removed
C29_Witness ==
  /\ lastStoreOp.name = "removeFile"
  /\ lastStoreOp.length >= 2
  /\ lastStoreOp.index = lastStoreOp.length - 1
  /\ Len(storeFiles) = lastStoreOp.length - 1
  /\ currentFileIndex = Len(storeFiles) - 1

\* C30: when playRange is called again before an earlier range has ended,
\* the end check of the earlier call stops acting: a check that ends a range
\* (pauses and sets the time to its end) or passes itself on belongs to the
\* most recent call of playRange, a check of an earlier call returns and is
\* gone from the animation frame callbacks, and no check passes itself on
\* once playback is paused.
C30_OnlyLatestPlayRangeActs ==
  /\ lastCheck.outcome \in {"ended", "rescheduled"} =>
       lastCheck.token = lastCheck.latest
  /\ lastCheck.outcome = "rescheduled" => ~lastCheck.paused
  /\ lastCheck.outcome = "ended" => ~lastCheck.paused
  /\ lastCheck.token < lastCheck.latest =>
       /\ lastCheck.outcome = "returned"
       /\ \A i \in 1..Len(frameCallbacks) :
            frameCallbacks[i].token # lastCheck.token
  /\ \A i, k \in 1..Len(frameCallbacks) :
       i # k => frameCallbacks[i].token # frameCallbacks[k].token

\* the check of an earlier call ran while a later range was playing, and
\* the later call's check is still waiting
C30_Witness ==
  /\ lastCheck.outcome = "returned"
  /\ lastCheck.token < lastCheck.latest
  /\ ~lastCheck.paused
  /\ ~audio.paused
  /\ \E i \in 1..Len(frameCallbacks) :
       frameCallbacks[i].token = playTokenRef

====
